---- MODULE Spec2Model ----
(***************************************************************************)
(* anymap (src/src/lib.rs): a HashMap whose values are type-erased.        *)
(*                                                                         *)
(*   Value    { inner: Box<dyn Any> }         lib.rs 25-48                 *)
(*   AnyMap<K>{ map: HashMap<K, Value> }      lib.rs 50-162                *)
(*                                                                         *)
(* A Box<dyn Any> is modelled by the pair (TypeId of the concrete type,    *)
(* the data).  std::collections::HashMap is modelled by its documented     *)
(* contract: a finite function from keys to values together with the       *)
(* number of further elements it can take without reallocating             *)
(* (growth_left; capacity() = len() + growth_left).  What capacity() is    *)
(* after a call is implementation-defined: which capacity an allocation    *)
(* yields, and whether the slot of a removed entry counts as free at once  *)
(* or stays a tombstone until it is reused or the table is rehashed.       *)
(* Every such effect is a choice among all the outcomes the contract       *)
(* allows, within MaxCap.                                                  *)
(***************************************************************************)
EXTENDS Naturals, FiniteSets

VARIABLES
    map,    \* the AnyMap the program works on
    ref,    \* an AnyMap built with new() that is given the same calls as map
    hint,   \* the capacity asked for when map was built (new() and default()
            \* ask for none: 0)
    held,   \* Option<Value>: the Value the caller owns outside the maps, a
            \* temporary it got from its last call
    pre,    \* map as it was when the last call was made
    last    \* the last call: [op, key, ty, val, ret, ref_ret, src]; ret is what
            \* map returned and ref_ret what ref returned

vars == << map, ref, hint, held, pre, last >>

\* ------------------------------------------------------------ bounds
\* Keys are 1..NumKeys (K is any Eq + Hash type).
NumKeys == 2
\* The data of a value of any type is one of 0..MaxPayload.
MaxPayload == 1
\* with_capacity(n) is called with n in 0..MaxCapHint.
MaxCapHint == 1

Keys == 1..NumKeys
Payloads == 0..MaxPayload
CapHints == 0..MaxCapHint
\* The largest capacity an allocation is given in the model.
MaxCap == IF NumKeys > MaxCapHint THEN NumKeys ELSE MaxCapHint

\* The concrete types values are built with and asked for (T: Any), the two
\* of the crate's tests.  A payload is the data whatever the type, so two
\* Values of different types can hold the same data.
Types == {"i32", "&str"}

\* ------------------------------------------------------------ Option<T>
None == << >>
Some(x) == << x >>
is_some(o) == o # None
unwrap(o) == o[1]

\* ------------------------------------------------------------ dyn Any
\* <dyn Any>::is::<T>(): the TypeId of the boxed value is TypeId::of::<T>().
dyn_is(inner, T) == inner.type_id = T

\* <dyn Any>::downcast_ref::<T>(): Some(&data) when is::<T>(), else None.
downcast_ref(inner, T) == IF dyn_is(inner, T) THEN Some(inner.data) ELSE None

\* ------------------------------------------------------------ Value
\* Value::new<T>(value): Box::new(value) coerced to Box<dyn Any>.
Value_new(T, value) == [inner |-> [type_id |-> T, data |-> value]]

\* as_type that casts without the type check (downcast_ref_unchecked).
as_type_unchecked(self, T) == Some(self.inner.data)

\* Value::as_type<T>(&self)
as_type(self, T) == downcast_ref(self.inner, T)

\* Value::is<T>(&self)
is(self, T) == dyn_is(self.inner, T)

\* Value::into_inner(self)
into_inner(self) == self.inner

\* ------------------------------------------------------------ HashMap<K, Value>
HashMap_len(h) == Cardinality(DOMAIN h.base)

\* HashMap::new(): empty, nothing allocated.
HashMap_new == [base |-> [k \in {} |-> None], growth_left |-> 0]

\* HashMap::with_capacity(n): empty, able to hold at least n elements without
\* reallocating; n = 0 allocates nothing.
HashMap_with_capacity(n) ==
    IF n = 0 THEN { HashMap_new }
    ELSE { [base |-> [k \in {} |-> None], growth_left |-> c] : c \in n..MaxCap }

\* HashMap::capacity()
HashMap_capacity(h) == HashMap_len(h) + h.growth_left

\* HashMap::get(k)
HashMap_get(h, k) == IF k \in DOMAIN h.base THEN Some(h.base[k]) ELSE None

\* HashMap::contains_key(k)
HashMap_contains_key(h, k) == k \in DOMAIN h.base

\* The table after (key, value) is stored.
HashMap_put(h, key, value) ==
    [k \in (DOMAIN h.base) \cup {key} |-> IF k = key THEN value ELSE h.base[k]]

\* HashMap::insert(key, value): the outcomes [map, ret].  An existing key has
\* its value replaced in place and the old value returned.  A new key takes
\* a free slot, or a tombstone (which leaves growth_left as it is); with no
\* free slot left the table is rehashed or reallocated first, to any
\* capacity that holds the new element.
HashMap_insert(h, key, value) ==
    IF key \in DOMAIN h.base
    THEN { [map |-> [base |-> HashMap_put(h, key, value),
                     growth_left |-> h.growth_left],
            ret |-> Some(h.base[key])] }
    ELSE IF h.growth_left > 0
    THEN { [map |-> [base |-> HashMap_put(h, key, value),
                     growth_left |-> g],
            ret |-> None] :
             g \in { x \in {h.growth_left - 1, h.growth_left} :
                        HashMap_len(h) + 1 + x <= MaxCap } }
    ELSE { [map |-> [base |-> HashMap_put(h, key, value),
                     growth_left |-> c - (HashMap_len(h) + 1)],
            ret |-> None] : c \in (HashMap_len(h) + 1)..MaxCap }

\* HashMap::remove(k): the outcomes [map, ret].  The slot of the removed entry
\* is free again or stays a tombstone.
HashMap_remove(h, key) ==
    IF key \in DOMAIN h.base
    THEN { [map |-> [base |-> [k \in (DOMAIN h.base) \ {key} |-> h.base[k]],
                     growth_left |-> g],
            ret |-> Some(h.base[key])] :
             g \in {h.growth_left, h.growth_left + 1} }
    ELSE { [map |-> h, ret |-> None] }

\* HashMap::clear(): the maps it can leave.  Every entry is dropped and the
\* allocation kept: all its slots are free, those of tombstones too.
HashMap_clear(h) ==
    { [base |-> [k \in {} |-> None], growth_left |-> c] :
        c \in HashMap_capacity(h)..MaxCap }

\* ------------------------------------------------------------ AnyMap<K>
\* AnyMap::new()
new == [map |-> HashMap_new]

\* AnyMap::with_capacity(capacity): the maps it can return.
with_capacity(n) == { [map |-> h] : h \in HashMap_with_capacity(n) }

\* <AnyMap as Default>::default()
default == new

\* capacity() that reports the room left instead of the whole capacity.
capacity_left(self) == self.map.growth_left

\* AnyMap::capacity()
capacity(self) == HashMap_capacity(self.map)

\* AnyMap::keys(): the keys the iterator yields (in no particular order).
keys(self) == DOMAIN self.map.base

\* AnyMap::iter(): the (key, &Value) pairs the iterator yields.
iter(self) == { <<k, self.map.base[k]>> : k \in DOMAIN self.map.base }

\* AnyMap::values(): the &Value items the iterator yields, one per entry, as
\* a bag: each Value with the number of entries that hold it.
values(self) ==
    [v \in { self.map.base[k] : k \in DOMAIN self.map.base } |->
        Cardinality({ k \in DOMAIN self.map.base : self.map.base[k] = v })]

\* AnyMap::len()
len(self) == HashMap_len(self.map)

\* AnyMap::is_empty()
is_empty(self) == HashMap_len(self.map) = 0

\* clear() that leaves the entries in place.
clear_keeps_entries(self) == { self }

\* AnyMap::clear(): the maps it can leave.
clear(self) == { [map |-> h] : h \in HashMap_clear(self.map) }

\* AnyMap::get(key)
get(self, key) == HashMap_get(self.map, key)

\* What a call that panicked leaves in place of a return value.
Panic == << "panic", "unwrap on None" >>

\* get_typed that unwraps the downcast: a Value of another type panics.
get_typed_unwrap(self, T, key) ==
    LET g == HashMap_get(self.map, key)
    IN  IF ~is_some(g) THEN None
        ELSE IF is(unwrap(g), T) THEN as_type(unwrap(g), T)
        ELSE Panic

\* get_typed that hands out the data without the type check.
get_typed_unchecked(self, T, key) ==
    LET g == HashMap_get(self.map, key)
    IN  IF is_some(g) THEN Some(unwrap(g).inner.data) ELSE None

\* AnyMap::get_typed<T>(key): self.map.get(key).and_then(|v| v.as_type::<T>())
get_typed(self, T, key) ==
    LET g == HashMap_get(self.map, key)
    IN  IF is_some(g) THEN as_type(unwrap(g), T) ELSE None

\* AnyMap::contains_key(key)
contains_key(self, key) == HashMap_contains_key(self.map, key)

\* insert_val through entry(key).or_insert(value): an existing key keeps its
\* Value and nothing is returned.
insert_val_keeps_old(self, key, value) ==
    IF key \in DOMAIN self.map.base
    THEN { [self |-> self, ret |-> None] }
    ELSE { [self |-> [map |-> o.map], ret |-> o.ret] :
             o \in HashMap_insert(self.map, key, value) }

\* AnyMap::insert_val(key, value): the outcomes [self, ret].
insert_val(self, key, value) ==
    { [self |-> [map |-> o.map], ret |-> o.ret] :
        o \in HashMap_insert(self.map, key, value) }

\* insert that keeps the value an existing key already has
\* (entry(key).or_insert(..)) and reports no prior value.
insert_keeps_old(self, T, key, value) ==
    IF key \in DOMAIN self.map.base
    THEN { [self |-> self, ret |-> None] }
    ELSE { [self |-> [map |-> o.map], ret |-> o.ret] :
             o \in HashMap_insert(self.map, key, Value_new(T, value)) }

\* insert that drops the prior Value instead of returning it.
insert_drops_old(self, T, key, value) ==
    { [self |-> [map |-> o.map], ret |-> None] :
        o \in HashMap_insert(self.map, key, Value_new(T, value)) }

\* AnyMap::insert<T>(key, value): the outcomes [self, ret].
insert(self, T, key, value) ==
    { [self |-> [map |-> o.map], ret |-> o.ret] :
        o \in HashMap_insert(self.map, key, Value_new(T, value)) }

\* remove through retain with the test the wrong way round: the entry of
\* key stays and every other entry goes.
remove_others(self, key) ==
    { [self |-> [map |-> [base |-> [k \in (DOMAIN self.map.base) \cap {key} |->
                                       self.map.base[k]],
                          growth_left |-> self.map.growth_left
                              + Cardinality((DOMAIN self.map.base) \ {key})]],
       ret |-> HashMap_get(self.map, key)] }

\* remove that returns the Value and leaves the entry in the map.
remove_keeps_entry(self, key) ==
    { [self |-> self, ret |-> HashMap_get(self.map, key)] }

\* AnyMap::remove(key): the outcomes [self, ret].
remove(self, key) ==
    { [self |-> [map |-> o.map], ret |-> o.ret] :
        o \in HashMap_remove(self.map, key) }

\* ------------------------------------------------------------ the calls
\* Arguments a call does not take (NoKey is no key of Keys).
NoKey == NumKeys + 1
NoType == ""

\* Where the Value given to insert_val came from: the remove that yielded
\* it, when that was the call before; NoSrc otherwise.
NoSrc == [op |-> "", key |-> NoKey]

Call(op, key, ty, val, ret, ref_ret) ==
    last' = [op |-> op, key |-> key, ty |-> ty, val |-> val,
             ret |-> ret, ref_ret |-> ref_ret, src |-> NoSrc]

\* A call on the map that takes &self: the maps do not change.  The caller
\* has dropped the temporary it held.
Read(op, key, ty, ret, ref_ret) ==
    /\ Call(op, key, ty, None, ret, ref_ret)
    /\ pre' = map
    /\ held' = None
    /\ UNCHANGED << map, ref, hint >>

Init ==
    /\ map = new
    /\ ref = new
    /\ hint = 0
    /\ held = None
    /\ pre = new
    /\ last = [op |-> "new", key |-> NoKey, ty |-> NoType, val |-> None,
               ret |-> None, ref_ret |-> None, src |-> NoSrc]

\* let mut map = AnyMap::new();   (the map owned before is dropped)
New ==
    /\ map' = new
    /\ ref' = new
    /\ hint' = 0
    /\ pre' = map'
    /\ Call("new", NoKey, NoType, None, None, None)
    /\ UNCHANGED held

\* let mut map = AnyMap::default();
Default ==
    /\ map' = default
    /\ ref' = new
    /\ hint' = 0
    /\ pre' = map'
    /\ Call("default", NoKey, NoType, None, None, None)
    /\ UNCHANGED held

\* let mut map = AnyMap::with_capacity(n);
WithCapacity(n) ==
    /\ map' \in with_capacity(n)
    /\ ref' = new
    /\ hint' = n
    /\ pre' = map'
    /\ Call("with_capacity", NoKey, NoType, None, None, None)
    /\ UNCHANGED held

Capacity == Read("capacity", NoKey, NoType, capacity(map), capacity(ref))

KeysCall == Read("keys", NoKey, NoType, keys(map), keys(ref))

ValuesCall == Read("values", NoKey, NoType, values(map), values(ref))

Iter == Read("iter", NoKey, NoType, iter(map), iter(ref))

LenCall == Read("len", NoKey, NoType, len(map), len(ref))

IsEmpty == Read("is_empty", NoKey, NoType, is_empty(map), is_empty(ref))

Get(k) == Read("get", k, NoType, get(map, k), get(ref, k))

GetTyped(T, k) == Read("get_typed", k, T, get_typed(map, T, k), get_typed(ref, T, k))

ContainsKey(k) ==
    Read("contains_key", k, NoType, contains_key(map, k), contains_key(ref, k))

Clear ==
    /\ map' \in clear(map)
    /\ ref' \in clear(ref)
    /\ pre' = map
    /\ held' = None
    /\ Call("clear", NoKey, NoType, None, None, None)
    /\ UNCHANGED hint

\* map.insert(k, v) with v: T; the caller holds what it returns.
Insert(T, k, v) ==
    \E o \in insert(map, T, k, v), r \in insert(ref, T, k, v) :
        /\ map' = o.self
        /\ ref' = r.self
        /\ pre' = map
        /\ held' = o.ret
        /\ Call("insert", k, T, Some(v), o.ret, r.ret)
        /\ UNCHANGED hint

\* map.insert_val(k, value) with the Value the caller owns, which is moved
\* into the map; what insert_val returns is what the caller owns afterwards.
InsertVal(k) ==
    /\ is_some(held)
    /\ \E o \in insert_val(map, k, unwrap(held)),
          r \in insert_val(ref, k, unwrap(held)) :
        /\ map' = o.self
        /\ ref' = r.self
        /\ pre' = map
        /\ held' = o.ret
        /\ last' = [op |-> "insert_val", key |-> k, ty |-> NoType, val |-> held,
                     ret |-> o.ret, ref_ret |-> r.ret,
                     src |-> IF last.op = "remove"
                             THEN [op |-> last.op, key |-> last.key]
                             ELSE NoSrc]
        /\ UNCHANGED hint

\* map.remove(k); the caller holds what it returns.
Remove(k) ==
    \E o \in remove(map, k), r \in remove(ref, k) :
        /\ map' = o.self
        /\ ref' = r.self
        /\ pre' = map
        /\ held' = o.ret
        /\ Call("remove", k, NoType, None, o.ret, r.ret)
        /\ UNCHANGED hint

\* let val = Value::new(v) with v: T  (inside the crate: new is pub(crate)).
ValueNew(T, v) ==
    /\ held' = Some(Value_new(T, v))
    /\ pre' = map
    /\ Call("Value::new", NoKey, T, Some(v), None, None)
    /\ UNCHANGED << map, ref, hint >>

\* val.is::<U>()
ValueIs(U) ==
    /\ is_some(held)
    /\ pre' = map
    /\ Call("is", NoKey, U, held, is(unwrap(held), U), None)
    /\ UNCHANGED << map, ref, hint, held >>

\* val.as_type::<U>()
ValueAsType(U) ==
    /\ is_some(held)
    /\ pre' = map
    /\ Call("as_type", NoKey, U, held, as_type(unwrap(held), U), None)
    /\ UNCHANGED << map, ref, hint, held >>

\* val.into_inner(): the Value is consumed.
IntoInner ==
    /\ is_some(held)
    /\ held' = None
    /\ pre' = map
    /\ Call("into_inner", NoKey, NoType, held, into_inner(unwrap(held)), None)
    /\ UNCHANGED << map, ref, hint >>

Next ==
    \/ New
    \/ Default
    \/ \E n \in CapHints : WithCapacity(n)
    \/ Capacity
    \/ KeysCall
    \/ ValuesCall
    \/ Iter
    \/ LenCall
    \/ IsEmpty
    \/ Clear
    \/ \E k \in Keys : Get(k)
    \/ \E T \in Types, k \in Keys : GetTyped(T, k)
    \/ \E k \in Keys : ContainsKey(k)
    \/ \E T \in Types, k \in Keys, v \in Payloads : Insert(T, k, v)
    \/ \E k \in Keys : InsertVal(k)
    \/ \E k \in Keys : Remove(k)
    \/ \E T \in Types, v \in Payloads : ValueNew(T, v)
    \/ \E U \in Types : ValueIs(U)
    \/ \E U \in Types : ValueAsType(U)
    \/ IntoInner

Spec == Init /\ [][Next]_vars

\* ------------------------------------------------------------ properties
\* The entries of a map: its keys with the Value each holds.
entries(self) == self.map.base

\* The keys k with contains_key(k).
Contained(self) == { k \in Keys : contains_key(self, k) }

\* C1: right after insert(k, v) with v: T, contains_key(k) is true, get(k)
\* returns a Value for which is::<T>() holds, and get_typed::<T>(k) returns a
\* view equal to v.
C1_InsertThenRead ==
    last.op = "insert" =>
        /\ contains_key(map, last.key)
        /\ is_some(get(map, last.key))
        /\ is(unwrap(get(map, last.key)), last.ty)
        /\ get_typed(map, last.ty, last.key) = last.val

\* insert(k, v) has just replaced a Value of the other type at k.
C1_Witness ==
    /\ last.op = "insert"
    /\ last.ty = "&str"
    /\ is_some(last.ret)
    /\ is(unwrap(last.ret), "i32")
    /\ len(map) = NumKeys

\* C2: insert overwrites on a duplicate key.  insert(k, v2) returns None when
\* k was absent and exactly the Value w that k held when it was present, w
\* passing to the caller; afterwards k holds v2 alone (get_typed with v2's
\* type gives v2, with any other type nothing) and an overwrite leaves len()
\* as it was.
C2_InsertOverwrites ==
    last.op = "insert" =>
        /\ last.ret = get(pre, last.key)
        /\ held = last.ret
        /\ get(map, last.key) = Some(Value_new(last.ty, unwrap(last.val)))
        /\ get_typed(map, last.ty, last.key) = last.val
        /\ \A U \in Types \ {last.ty} : get_typed(map, U, last.key) = None
        /\ contains_key(pre, last.key) => len(map) = len(pre)
        /\ ~contains_key(pre, last.key) =>
              /\ last.ret = None
              /\ len(map) = len(pre) + 1

\* insert has replaced a Value w of another type than v2's and returned w.
C2_Witness ==
    /\ last.op = "insert"
    /\ is_some(last.ret)
    /\ ~is(unwrap(last.ret), last.ty)
    /\ get_typed(pre, unwrap(last.ret).inner.type_id, last.key)
         = Some(unwrap(last.ret).inner.data)
    /\ get_typed(map, unwrap(last.ret).inner.type_id, last.key) = None

\* C3: remove(k) returns exactly the Value stored at k and takes one off
\* len() when k is present; in every case contains_key(k) is false
\* afterwards, and a second remove(k) made then returns nothing and leaves
\* the map as it is.
C3_RemoveEvicts ==
    last.op = "remove" =>
        /\ last.ret = get(pre, last.key)
        /\ contains_key(pre, last.key) => len(map) + 1 = len(pre)
        /\ ~contains_key(pre, last.key) => last.ret = None /\ map = pre
        /\ ~contains_key(map, last.key)
        /\ remove(map, last.key) = { [self |-> map, ret |-> None] }

\* remove(k) has returned the Value of a present key and left another entry.
C3_Witness ==
    /\ last.op = "remove"
    /\ is_some(last.ret)
    /\ contains_key(pre, last.key)
    /\ len(map) = NumKeys - 1

\* What get_typed::<T>(k) has to return given the entries: the stored data
\* when k is present with a Value built from a T, nothing otherwise.
TypedView(self, T, k) ==
    IF k \in DOMAIN entries(self) /\ entries(self)[k].inner.type_id = T
    THEN Some(entries(self)[k].inner.data)
    ELSE None

\* C4: get_typed::<T>(k) returns what get(k) followed by as_type::<T>()
\* returns: a view of the stored payload exactly when k is present and the
\* stored value's concrete type is T, nothing when k is absent and nothing
\* when k holds another type, while get(k) and contains_key(k) tell the two
\* apart.
C4_GetTypedIsGetThenAsType ==
    /\ \A T \in Types, k \in Keys :
          /\ get_typed(map, T, k) = TypedView(map, T, k)
          /\ get_typed(map, T, k) =
                (IF is_some(get(map, k)) THEN as_type(unwrap(get(map, k)), T)
                 ELSE None)
          /\ is_some(get(map, k)) <=> k \in DOMAIN entries(map)
          /\ contains_key(map, k) <=> k \in DOMAIN entries(map)
    /\ last.op = "get_typed" => last.ret = TypedView(pre, last.ty, last.key)
    /\ last.op = "get" =>
          (is_some(last.ret) <=> last.key \in DOMAIN entries(pre))
    /\ last.op = "contains_key" =>
          (last.ret <=> last.key \in DOMAIN entries(pre))

\* get_typed has returned nothing for a key that holds another type, in a
\* map where a key that is absent gives nothing as well.
C4_Witness ==
    /\ last.op = "get_typed"
    /\ last.ret = None
    /\ contains_key(map, last.key)
    /\ \E k \in Keys :
          /\ ~contains_key(map, k)
          /\ get_typed(map, last.ty, k) = last.ret

\* C5: len() is the number of keys with contains_key(k) and is_empty() is
\* len() = 0; clear() leaves len() = 0, is_empty() and no key contained,
\* and the map can be used again: an insert made then is retrievable.
C5_LenCountsKeys ==
    /\ len(map) = Cardinality(Contained(map))
    /\ is_empty(map) <=> len(map) = 0
    /\ last.op = "len" => last.ret = Cardinality(Contained(pre))
    /\ last.op = "is_empty" => (last.ret <=> Contained(pre) = {})
    /\ last.op = "clear" =>
          /\ len(map) = 0
          /\ is_empty(map)
          /\ Contained(map) = {}
          /\ \A T \in Types, k \in Keys, v \in Payloads :
                /\ insert(map, T, k, v) # {}
                /\ \A o \in insert(map, T, k, v) :
                      /\ o.ret = None
                      /\ get_typed(o.self, T, k) = Some(v)
                      /\ len(o.self) = 1
    /\ (last.op = "insert" /\ is_empty(pre)) =>
          len(map) = 1 /\ get_typed(map, last.ty, last.key) = last.val

\* clear() has emptied a map that held every key.
C5_Witness ==
    /\ last.op = "clear"
    /\ len(pre) = NumKeys
    /\ is_empty(map)

\* C6: for a Value built by Value::new(v) with v: T and every type U,
\* is::<U>() is true iff U is T, as_type::<U>() returns a view equal to v iff
\* is::<U>() is true and nothing otherwise, and neither call changes the
\* Value.
C6_ValueTypeIsExact ==
    /\ \A T \in Types, v \in Payloads, U \in Types :
          /\ is(Value_new(T, v), U) <=> U = T
          /\ as_type(Value_new(T, v), U) = (IF U = T THEN Some(v) ELSE None)
    /\ last.op = "Value::new" =>
          /\ is(unwrap(held), last.ty)
          /\ as_type(unwrap(held), last.ty) = last.val
          /\ \A U \in Types \ {last.ty} :
                ~is(unwrap(held), U) /\ as_type(unwrap(held), U) = None
    /\ last.op = "is" =>
          /\ held = last.val
          /\ last.ret <=> \E v \in Payloads : last.val = Some(Value_new(last.ty, v))
    /\ last.op = "as_type" =>
          /\ held = last.val
          /\ is_some(last.ret) <=> is(unwrap(last.val), last.ty)
          /\ is_some(last.ret) =>
                last.val = Some(Value_new(last.ty, unwrap(last.ret)))

\* as_type::<U>() has returned nothing for a Value built from another type
\* and has left the Value as it was.
C6_Witness ==
    /\ last.op = "as_type"
    /\ last.ret = None
    /\ is_some(held)
    /\ ~is(unwrap(held), last.ty)

MutOps == {"insert", "insert_val", "remove"}
ReadOps == {"get", "get_typed", "contains_key", "len", "is_empty", "capacity",
            "keys", "values", "iter"}
ValueOps == {"Value::new", "is", "as_type", "into_inner"}

\* C7: the Value under a key changes only through insert, insert_val or
\* remove of that key, or clear: insert, insert_val and remove of k leave the
\* Value at every other key as it was, and get, get_typed, contains_key, len,
\* is_empty, capacity, keys, values and iter leave every entry as it was.
C7_Frame ==
    /\ last.op \in MutOps =>
          \A k \in Keys \ {last.key} : get(map, k) = get(pre, k)
    /\ last.op \in ReadOps \cup ValueOps => entries(map) = entries(pre)
    /\ \A k \in Keys :
          get(map, k) # get(pre, k) =>
              \/ last.op \in MutOps /\ last.key = k
              \/ last.op = "clear"

\* insert_val has replaced the Value of one key while another key kept its.
C7_Witness ==
    /\ last.op = "insert_val"
    /\ get(map, last.key) # get(pre, last.key)
    /\ \E k \in Keys \ {last.key} : is_some(get(map, k))

\* C8: insert_val(k, w) has the effect and the return value of insert(k, v)
\* where w wraps v, and stores w as it is, type and payload kept: from a
\* state with k present, remove(k) followed by insert_val(k, removed) returns
\* None and restores the entries the map had, and a Value given to
\* insert_val, whichever map it came out of, is retrievable by get_typed
\* with its own type.
C8_InsertValIsInsert ==
    /\ last.op = "insert_val" =>
          /\ get(map, last.key) = last.val
          /\ get_typed(map, unwrap(last.val).inner.type_id, last.key)
                = Some(unwrap(last.val).inner.data)
          /\ last.ret = get(pre, last.key)
          /\ [self |-> map, ret |-> last.ret] \in
                insert(pre, unwrap(last.val).inner.type_id, last.key,
                       unwrap(last.val).inner.data)
    /\ (last.op = "insert_val" /\ last.src = [op |-> "remove", key |-> last.key]) =>
          /\ last.ret = None
          /\ len(map) = len(pre) + 1
    /\ \A k \in Keys, T \in Types, v \in Payloads :
          insert_val(map, k, Value_new(T, v)) = insert(map, T, k, v)
    /\ \A k \in Contained(map) :
          \A r \in remove(map, k) :
              \A o \in insert_val(r.self, k, unwrap(r.ret)) :
                  /\ o.ret = None
                  /\ entries(o.self) = entries(map)

\* insert_val has put back, under the key it was removed from, the Value
\* that the call before it removed.
C8_Witness ==
    /\ last.op = "insert_val"
    /\ last.src = [op |-> "remove", key |-> last.key]
    /\ last.ret = None
    /\ get(map, last.key) = last.val
    /\ len(map) = NumKeys

\* C9: no call panics: every call can be made in every state with every key
\* and every type, and a missing key or a type mismatch is answered by
\* absence alone (get, get_typed and remove return nothing, contains_key
\* false) with the entries and len() left as they were.
C9_NoPanic ==
    /\ ENABLED New /\ ENABLED Default /\ ENABLED Clear
    /\ ENABLED Capacity /\ ENABLED LenCall /\ ENABLED IsEmpty
    /\ ENABLED KeysCall /\ ENABLED ValuesCall /\ ENABLED Iter
    /\ \A n \in CapHints : ENABLED WithCapacity(n)
    /\ \A k \in Keys :
          ENABLED Get(k) /\ ENABLED ContainsKey(k) /\ ENABLED Remove(k)
    /\ \A T \in Types, k \in Keys : ENABLED GetTyped(T, k)
    /\ \A T \in Types, k \in Keys, v \in Payloads : ENABLED Insert(T, k, v)
    /\ is_some(held) =>
          /\ \A k \in Keys : ENABLED InsertVal(k)
          /\ \A U \in Types : ENABLED ValueIs(U) /\ ENABLED ValueAsType(U)
          /\ ENABLED IntoInner
    /\ (last.op = "get" /\ ~contains_key(pre, last.key)) =>
          last.ret = None /\ map = pre
    /\ (last.op = "remove" /\ ~contains_key(pre, last.key)) =>
          last.ret = None /\ map = pre
    /\ (last.op = "contains_key" /\ last.key \notin DOMAIN entries(pre)) =>
          last.ret = FALSE /\ map = pre
    /\ (last.op = "get_typed" /\ TypedView(pre, last.ty, last.key) = None) =>
          last.ret = None /\ map = pre
    /\ (last.op = "as_type" /\ ~is(unwrap(last.val), last.ty)) =>
          last.ret = None /\ held = last.val
    /\ last.op \in {"get", "get_typed", "remove", "insert", "insert_val"} =>
          last.ret = None \/ (Cardinality(DOMAIN last.ret) = 1)

\* remove of a key that is absent from a map holding another key has
\* returned nothing.
C9_Witness ==
    /\ last.op = "remove"
    /\ last.ret = None
    /\ ~is_empty(map)
    /\ map = pre

Constructors == {"new", "default", "with_capacity"}

\* C10: new(), default() and with_capacity(n), for every n, build an empty
\* map; n is a sizing hint only: a map built with with_capacity(n) takes
\* further keys whatever its len(), and every call on it returns what the
\* same call returns on a map built with new() and given the same calls;
\* capacity() >= len() throughout.
C10_CapacityIsAHint ==
    /\ last.op \in Constructors =>
          len(map) = 0 /\ is_empty(map) /\ Contained(map) = {}
    /\ len(new) = 0 /\ len(default) = 0
    /\ \A n \in CapHints :
          /\ with_capacity(n) # {}
          /\ \A m \in with_capacity(n) : len(m) = 0 /\ is_empty(m)
    /\ \A T \in Types, k \in Keys, v \in Payloads :
          /\ insert(map, T, k, v) # {}
          /\ \A o \in insert(map, T, k, v) : contains_key(o.self, k)
    /\ entries(map) = entries(ref)
    /\ last.op \in (MutOps \cup ReadOps \cup {"clear"}) \ {"capacity"} =>
          last.ret = last.ref_ret
    /\ capacity(map) >= len(map)
    /\ last.op = "capacity" => last.ret >= len(pre)

\* A map built with with_capacity(n), n >= 1, that was full has taken one
\* key more and holds more than n keys.
C10_Witness ==
    /\ hint >= 1
    /\ last.op = "insert"
    /\ pre.map.growth_left = 0
    /\ len(pre) >= hint
    /\ len(map) > hint
    /\ last.ret = last.ref_ret

====
